---- MODULE Spec2Model ----
(***************************************************************************)
(* streamLLM (frontend/src/api.js): the SSE reader of the chat frontend.   *)
(* api.js holds two definitions of streamLLM (lines 40-111 and 152-225);   *)
(* the model runs either one, chosen in Init and named by `variant`:       *)
(*   "A"  lines 40-111,  strict JSON, top-level content only               *)
(*   "B"  lines 152-225, event gate, brace slicing, raw-payload fallback   *)
(* Text is a sequence of one-character strings.  The response body is      *)
(* ASCII, so a byte is a character and TextDecoder.decode(value,           *)
(* {stream: true}) returns the bytes it is given.                          *)
(***************************************************************************)
EXTENDS Integers, Sequences, FiniteSets, TLC

----------------------------------------------------------------------------
(* JavaScript String methods, on sequences of characters.                  *)

\* White space as String.prototype.trim and JSON.parse see it.
IsWS(c) == c \in {" ", "\t", "\r", "\n"}

RECURSIVE TrimStart(_)
TrimStart(s) ==
    IF s # <<>> /\ IsWS(Head(s)) THEN TrimStart(Tail(s)) ELSE s

RECURSIVE TrimEnd(_)
TrimEnd(s) ==
    IF s # <<>> /\ IsWS(s[Len(s)]) THEN TrimEnd(SubSeq(s, 1, Len(s) - 1)) ELSE s

\* s.trim()
Trim(s) == TrimEnd(TrimStart(s))

\* s.startsWith(p)
StartsWith(s, p) == Len(s) >= Len(p) /\ SubSeq(s, 1, Len(p)) = p

\* s.slice(n): drops the first n characters.
Slice(s, n) == SubSeq(s, n + 1, Len(s))

\* The positions of c in s.
Positions(s, c) == {i \in 1..Len(s) : s[i] = c}

\* s.indexOf(c) + 1: the first position of c, 0 when s has no c (JS: -1).
IndexOf(s, c) ==
    LET at == Positions(s, c)
    IN  IF at = {} THEN 0 ELSE CHOOSE i \in at : \A j \in at : i <= j

\* s.lastIndexOf(c) + 1: the last position of c, 0 when s has no c.
LastIndexOf(s, c) ==
    LET at == Positions(s, c)
    IN  IF at = {} THEN 0 ELSE CHOOSE i \in at : \A j \in at : j <= i

\* s.split('\n'): the segments between newlines, one more than there are
\* newlines.
Split(s) ==
    LET at == Positions(s, "\n")
        \* the k-th newline; 0 before the first, Len(s) + 1 after the last
        nl(k) == IF k = 0 THEN 0
                 ELSE IF k > Cardinality(at) THEN Len(s) + 1
                 ELSE CHOOSE i \in at : Cardinality({j \in at : j <= i}) = k
    IN  [k \in 1..(Cardinality(at) + 1) |-> SubSeq(s, nl(k - 1) + 1, nl(k) - 1)]

----------------------------------------------------------------------------
(* JSON values and JSON.parse.  A value is a record tagged by t.  The      *)
(* parser reads objects, arrays, strings (with the two-character escapes), *)
(* integers and the literals null, true, false.                            *)

JUndefined == [t |-> "undefined"]
JNull == [t |-> "null"]
JBool(b) == [t |-> "bool", b |-> b]
JNum(n) == [t |-> "num", n |-> n]
JStr(s) == [t |-> "str", s |-> s]
JArr(a) == [t |-> "arr", a |-> a]
JObj(o) == [t |-> "obj", o |-> o]

Digits == <<"0", "1", "2", "3", "4", "5", "6", "7", "8", "9">>
IsDigit(c) == \E d \in 1..10 : Digits[d] = c
DigitVal(c) == (CHOOSE d \in 1..10 : Digits[d] = c) - 1

Fail == [ok |-> FALSE, v |-> JUndefined, p |-> 0]
Ok(v, p) == [ok |-> TRUE, v |-> v, p |-> p]

RECURSIVE SkipWS(_, _)
SkipWS(s, i) == IF i <= Len(s) /\ IsWS(s[i]) THEN SkipWS(s, i + 1) ELSE i

\* The character an escape \c stands for; "" when JSON has no such escape.
Unescape(c) ==
    CASE c = "\"" -> "\""
      [] c = "\\" -> "\\"
      [] c = "/" -> "/"
      [] c = "n" -> "\n"
      [] c = "t" -> "\t"
      [] c = "r" -> "\r"
      [] OTHER -> ""

\* The string whose opening quote is at i - 1; acc is what was read so far.
RECURSIVE ParseString(_, _, _)
ParseString(s, i, acc) ==
    IF i > Len(s) THEN Fail
    ELSE IF s[i] = "\"" THEN Ok(JStr(acc), i + 1)
    ELSE IF s[i] = "\\" THEN
        IF i + 1 > Len(s) \/ Unescape(s[i + 1]) = "" THEN Fail
        ELSE ParseString(s, i + 2, Append(acc, Unescape(s[i + 1])))
    ELSE IF s[i] \in {"\n", "\t", "\r"} THEN Fail
    ELSE ParseString(s, i + 1, Append(acc, s[i]))

RECURSIVE ParseDigits(_, _, _)
ParseDigits(s, i, acc) ==
    IF i <= Len(s) /\ IsDigit(s[i])
    THEN ParseDigits(s, i + 1, 10 * acc + DigitVal(s[i]))
    ELSE Ok(JNum(acc), i)

\* An integer at i: 0, or a non-zero digit and more digits.
ParseNumber(s, i) ==
    IF s[i] = "0" THEN Ok(JNum(0), i + 1) ELSE ParseDigits(s, i, 0)

ParseLiteral(s, i, word, v) ==
    IF i + Len(word) - 1 <= Len(s) /\ SubSeq(s, i, i + Len(word) - 1) = word
    THEN Ok(v, i + Len(word))
    ELSE Fail

RECURSIVE ParseValue(_, _)
RECURSIVE ParseElements(_, _, _)
RECURSIVE ParseMembers(_, _, _)

\* The value that starts at or after i (white space skipped).
ParseValue(s, i0) ==
    LET i == SkipWS(s, i0)
    IN  IF i > Len(s) THEN Fail
        ELSE CASE s[i] = "{" ->
                    LET j == SkipWS(s, i + 1)
                    IN  IF j <= Len(s) /\ s[j] = "}" THEN Ok(JObj(<<>>), j + 1)
                        ELSE ParseMembers(s, j, <<>>)
               [] s[i] = "[" ->
                    LET j == SkipWS(s, i + 1)
                    IN  IF j <= Len(s) /\ s[j] = "]" THEN Ok(JArr(<<>>), j + 1)
                        ELSE ParseElements(s, j, <<>>)
               [] s[i] = "\"" -> ParseString(s, i + 1, <<>>)
               [] s[i] = "n" -> ParseLiteral(s, i, <<"n", "u", "l", "l">>, JNull)
               [] s[i] = "t" -> ParseLiteral(s, i, <<"t", "r", "u", "e">>, JBool(TRUE))
               [] s[i] = "f" ->
                    ParseLiteral(s, i, <<"f", "a", "l", "s", "e">>, JBool(FALSE))
               [] IsDigit(s[i]) -> ParseNumber(s, i)
               [] OTHER -> Fail

\* The elements of an array from i on, up to its closing bracket.
ParseElements(s, i, acc) ==
    LET r == ParseValue(s, i)
        j == SkipWS(s, r.p)
    IN  IF ~r.ok \/ j > Len(s) THEN Fail
        ELSE IF s[j] = "]" THEN Ok(JArr(Append(acc, r.v)), j + 1)
        ELSE IF s[j] = "," THEN ParseElements(s, j + 1, Append(acc, r.v))
        ELSE Fail

\* The members of an object from i on, up to its closing brace.
ParseMembers(s, i0, acc) ==
    LET i == SkipWS(s, i0)
        k == IF i <= Len(s) /\ s[i] = "\"" THEN ParseString(s, i + 1, <<>>) ELSE Fail
        c == SkipWS(s, k.p)
        r == IF k.ok /\ c <= Len(s) /\ s[c] = ":" THEN ParseValue(s, c + 1) ELSE Fail
        j == SkipWS(s, r.p)
        m == Append(acc, [k |-> k.v.s, v |-> r.v])
    IN  IF ~r.ok \/ j > Len(s) THEN Fail
        ELSE IF s[j] = "}" THEN Ok(JObj(m), j + 1)
        ELSE IF s[j] = "," THEN ParseMembers(s, j + 1, m)
        ELSE Fail

\* The value a JSON text stands for: ok is FALSE where JSON.parse throws a
\* SyntaxError.
ParseDocument(s) ==
    LET r == ParseValue(s, 1)
    IN  IF r.ok /\ SkipWS(s, r.p) = Len(s) + 1 THEN r ELSE Fail

\* v[key] for a value v that is neither null nor undefined: the member's
\* value (the last one of that name), undefined when v has none.
Get(v, key) ==
    IF v.t = "obj" /\ \E i \in 1..Len(v.o) : v.o[i].k = key
    THEN v.o[CHOOSE i \in 1..Len(v.o) :
                 v.o[i].k = key /\ \A j \in (i + 1)..Len(v.o) : v.o[j].k # key].v
    ELSE JUndefined

\* Whether v counts as true in a condition.
Truthy(v) ==
    CASE v.t = "undefined" -> FALSE
      [] v.t = "null" -> FALSE
      [] v.t = "bool" -> v.b
      [] v.t = "num" -> v.n # 0
      [] v.t = "str" -> v.s # <<>>
      [] OTHER -> TRUE

----------------------------------------------------------------------------
(* The literals of streamLLM.                                              *)

\* Another prefix than the wire format's.
DataPrefixUpper == <<"D", "A", "T", "A", ":">>

\* 'data:'
DataPrefix == <<"d", "a", "t", "a", ":">>

\* 'event:'
EventPrefix == <<"e", "v", "e", "n", "t", ":">>

\* '[DONE]'
DoneSentinel == <<"[", "D", "O", "N", "E", "]">>

\* 'conversation.message.delta'
DeltaEvent ==
    <<"c", "o", "n", "v", "e", "r", "s", "a", "t", "i", "o", "n", ".",
      "m", "e", "s", "s", "a", "g", "e", ".", "d", "e", "l", "t", "a">>

\* 'follow_up'
FollowUp == <<"f", "o", "l", "l", "o", "w", "_", "u", "p">>

\* The property names content, data, contents, type, msg_type.
KContent == <<"c", "o", "n", "t", "e", "n", "t">>
KData == <<"d", "a", "t", "a">>
KContents == <<"c", "o", "n", "t", "e", "n", "t", "s">>
KType == <<"t", "y", "p", "e">>
KMsgType == <<"m", "s", "g", "_", "t", "y", "p", "e">>

IsStr(v, s) == v.t = "str" /\ v.s = s

VARIABLES
    variant,  \* "A": streamLLM of lines 40-111; "B": streamLLM of lines 152-225
    sink,     \* the callbacks given to streamLLM: which invocations throw
    status,   \* the HTTP status of the response to /stream; 0 before a request
    text,     \* the response body: all the source will deliver
    src,      \* the part of text the reader has not returned yet
    pc,       \* "idle", "fetch", "read", "done" (returned after onDone), "failed" (after catch)
    buffer,   \* let buffer
    calls,    \* the callbacks invoked so far, in order
    lineLog,  \* history: the lines the for loop has visited, with what each passed on
    page,     \* ChatPage: whether it is mounted, and its useState values
    orphans,  \* the streams in flight that a ChatPage since unmounted started
    stopAt,   \* history: how many callbacks had been invoked when the user
              \* pressed the button of line 153; -1 when not pressed
    base,     \* history: the messages of ChatPage as handleSend left them
    shell     \* AppShell: its token, localStorage, the route shown, LoginPage
              \* and the requests of LoginPage in flight

vars ==
    <<variant, sink, status, text, src, pc, buffer, calls, lineLog,
      page, orphans, stopAt, base, shell>>

\* What a run of streamLLM is given, and what the steps of a stream leave
\* alone: the histories of ChatPage and AppShell.
given == <<variant, sink, status, text>>
chat == <<orphans, stopAt, base, shell>>

----------------------------------------------------------------------------
(* The lines a response body is made of.                                   *)

\* event: x   -- an event line naming another event
LEvOther == <<"e", "v", "e", "n", "t", ":", " ", "x">>

\* event: conversation.message.delta   -- an event line naming the delta event
LEvDelta ==
    <<"e", "v", "e", "n", "t", ":", " ", "c", "o", "n", "v", "e", "r", "s",
      "a", "t", "i", "o", "n", ".", "m", "e", "s", "s", "a", "g", "e", ".",
      "d", "e", "l", "t", "a">>

\* data: event: x   -- a data line whose payload starts with event:
LDataEvOther ==
    <<"d", "a", "t", "a", ":", " ", "e", "v", "e", "n", "t", ":", " ", "x">>

\* data: [DONE]   -- the sentinel
LDone == <<"d", "a", "t", "a", ":", " ", "[", "D", "O", "N", "E", "]">>

\* data: {"content":"A"}   -- top-level content
LPlain ==
    <<"d", "a", "t", "a", ":", " ", "{", "\"", "c", "o", "n", "t", "e", "n",
      "t", "\"", ":", "\"", "A", "\"", "}">>

\* data: {"type":"follow_up","content":"A"}   -- a suggestion, by type
LFollowType ==
    <<"d", "a", "t", "a", ":", " ", "{", "\"", "t", "y", "p", "e", "\"", ":",
      "\"", "f", "o", "l", "l", "o", "w", "_", "u", "p", "\"", ",", "\"",
      "c", "o", "n", "t", "e", "n", "t", "\"", ":", "\"", "A", "\"", "}">>

\* data: {"msg_type":"follow_up","data":{"content":"B"}}
\*   -- a suggestion, by msg_type
LFollowMsg ==
    <<"d", "a", "t", "a", ":", " ", "{", "\"", "m", "s", "g", "_", "t", "y",
      "p", "e", "\"", ":", "\"", "f", "o", "l", "l", "o", "w", "_", "u", "p",
      "\"", ",", "\"", "d", "a", "t", "a", "\"", ":", "{", "\"", "c", "o",
      "n", "t", "e", "n", "t", "\"", ":", "\"", "B", "\"", "}", "}">>

\* data: {"content":"A","data":{"content":"B","contents":[{"content":"C"},
\*     {"content":"D"}]}}
\*   -- content, data.content and data.contents
LAllRules ==
    <<"d", "a", "t", "a", ":", " ", "{", "\"", "c", "o", "n", "t", "e", "n",
      "t", "\"", ":", "\"", "A", "\"", ",", "\"", "d", "a", "t", "a", "\"",
      ":", "{", "\"", "c", "o", "n", "t", "e", "n", "t", "\"", ":", "\"",
      "B", "\"", ",", "\"", "c", "o", "n", "t", "e", "n", "t", "s", "\"",
      ":", "[", "{", "\"", "c", "o", "n", "t", "e", "n", "t", "\"", ":",
      "\"", "C", "\"", "}", ",", "{", "\"", "c", "o", "n", "t", "e", "n",
      "t", "\"", ":", "\"", "D", "\"", "}", "]", "}", "}">>

\* data: {"content":" "}   -- content of white space only
LBlank ==
    <<"d", "a", "t", "a", ":", " ", "{", "\"", "c", "o", "n", "t", "e", "n",
      "t", "\"", ":", "\"", " ", "\"", "}">>

\* data: oops   -- a payload that is not JSON
LNotJson == <<"d", "a", "t", "a", ":", " ", "o", "o", "p", "s">>

\* data: null   -- JSON, not an object
LNull == <<"d", "a", "t", "a", ":", " ", "n", "u", "l", "l">>

\* data: {"x":[1]}   -- an object with no content field
LNoField ==
    <<"d", "a", "t", "a", ":", " ", "{", "\"", "x", "\"", ":", "[", "1", "]",
      "}">>

\* (empty)   -- a blank line
LEmpty == <<>>

Catalogue ==
    {LEvOther, LEvDelta, LDataEvOther, LDone,
     LPlain, LFollowType, LFollowMsg, LAllRules,
     LBlank, LNotJson, LNull, LNoField,
     LEmpty}

\* A line's payload, as the wire format defines it: what follows data:,
\* trimmed; <<>> for a line that is no data line.
PayloadOf(line) ==
    IF StartsWith(Trim(line), DataPrefix)
    THEN Trim(Slice(Trim(line), Len(DataPrefix)))
    ELSE <<>>

\* JSON.parse(s).  What the catalogue's payloads stand for is computed once
\* and looked up; any other text is parsed where it is met.
CataloguePayloads == {PayloadOf(l) : l \in Catalogue}
ParsedPayloads == [s \in CataloguePayloads |-> ParseDocument(s)]
JsonParse(s) ==
    IF s \in CataloguePayloads THEN ParsedPayloads[s] ELSE ParseDocument(s)

----------------------------------------------------------------------------
(* Callback invocations.                                                   *)

Call(cb, arg, threw) == [cb |-> cb, arg |-> arg, threw |-> threw]

\* How many times onChunk was invoked in cs.
NChunk(cs) == Cardinality({i \in 1..Len(cs) : cs[i].cb = "onChunk"})

\* onChunk(v): the invocation is recorded whether or not the callback throws.
Invoke(cs, v) ==
    Append(cs, Call("onChunk", v, (NChunk(cs) + 1) \in sink.chunkThrowAt))

\* Whether the last invocation of cs threw.
Threw(cs) == cs # <<>> /\ cs[Len(cs)].threw

\* The values passed to onChunk in cs, in order.
ChunkArgs(cs) ==
    LET sel == SelectSeq(cs, LAMBDA c : c.cb = "onChunk")
    IN  [i \in 1..Len(sel) |-> sel[i].arg]

\* What streamLLM's catch block can be handed: the rejection of fetch, the
\* Error of line 51, the rejection of reader.read(), and what was thrown
\* inside the loop or by onDone.
ErrFetch == [t |-> "error", of |-> "fetch"]
ErrNoBody == [t |-> "error", of |-> "body"]
ErrRead == [t |-> "error", of |-> "read"]
ErrThrown == [t |-> "error", of |-> "thrown"]

\* A catch block that reports the error and then the end of the stream, as
\* one with onDone() in a finally clause would.
CatchThenDone(cs, err) ==
    Append(Append(cs, Call("onError", err, FALSE)),
           Call("onDone", JUndefined, FALSE))

\* catch (err) { console.error(err); onError(err); }
Catch(cs, err) == Append(cs, Call("onError", err, FALSE))

----------------------------------------------------------------------------
(* The body of the for loop, per line.  The loop state is                  *)
(* [calls, ev, thrown]: the invocations so far, currentEvent, and whether  *)
(* an exception is leaving the loop.                                       *)

\* A loop without the sentinel test.
SentinelUntested(payload) == FALSE

\* payload === '[DONE]'
Sentinel(payload) == payload = DoneSentinel

\* A try block that ended with no exception leaving it.
Quiet(cs) == [calls |-> cs, thrown |-> FALSE]

\* The loop state after a try block that ended as r.
AfterTry(st, r) == [st EXCEPT !.calls = r.calls, !.thrown = r.thrown]

\* A try block without its catch: the SyntaxError leaves the loop.
ParseEscapesA(cs, payload) == [calls |-> cs, thrown |-> TRUE]

\* Variant A, catch (e) {} at line 100, entered by a SyntaxError of
\* JSON.parse: the line is skipped.
ParseFailedA(cs, payload) == Quiet(cs)

\* Variant A, lines 80-99, r being what JSON.parse(payload) came to.  The
\* empty catch at line 100 also swallows whatever onChunk throws.
ExtractA(cs, payload, r) ==
    LET dataObj == r.v
        content == Get(dataObj, KContent)
    IN  IF ~r.ok THEN ParseFailedA(cs, payload)
        ELSE IF ~Truthy(dataObj) \/ dataObj.t \notin {"obj", "arr"} THEN Quiet(cs)
        ELSE IF \/ IsStr(Get(dataObj, KType), FollowUp)
                \/ IsStr(Get(dataObj, KMsgType), FollowUp) THEN Quiet(cs)
        ELSE IF content.t # "str" \/ Trim(content.s) = <<>> THEN Quiet(cs)
        ELSE Quiet(Invoke(cs, content))

\* Variant A, lines 78-102: the try block and its catch.
TryA(cs, payload) == ExtractA(cs, payload, JsonParse(payload))

\* Variant A, lines 66-102.
LineA(st, line) ==
    LET trimmed == Trim(line)
        payload == Trim(Slice(trimmed, Len(DataPrefix)))
    IN  IF ~StartsWith(trimmed, DataPrefix) THEN st
        ELSE IF payload = <<>> THEN st
        ELSE IF Sentinel(payload) THEN st
        ELSE IF StartsWith(payload, EventPrefix) THEN st
        ELSE AfterTry(st, TryA(st.calls, payload))

\* Variant B, lines 205-207: the string contents of the elements of
\* obj.data.contents.
ContentsOf(a) ==
    LET sel == SelectSeq(a, LAMBDA c : Truthy(c) /\ Get(c, KContent).t = "str")
    IN  [i \in 1..Len(sel) |-> Get(sel[i], KContent)]

\* parts filled from data.contents first, then content and data.content.
PartsBContentsFirst(obj, payload) ==
    LET data == Get(obj, KData)
        contents == IF Truthy(data) THEN Get(data, KContents) ELSE JUndefined
        p1 == IF Truthy(Get(obj, KContent)) THEN <<Get(obj, KContent)>> ELSE <<>>
        p2 == IF Truthy(data) /\ Truthy(Get(data, KContent))
              THEN <<Get(data, KContent)>> ELSE <<>>
        p3 == IF contents.t = "arr" THEN ContentsOf(contents.a) ELSE <<>>
        parts == p3 \o p1 \o p2
    IN  IF parts = <<>> THEN <<JStr(payload)>> ELSE parts

\* Variant B, lines 201-209: parts.
PartsB(obj, payload) ==
    LET data == Get(obj, KData)
        contents == IF Truthy(data) THEN Get(data, KContents) ELSE JUndefined
        p1 == IF Truthy(Get(obj, KContent)) THEN <<Get(obj, KContent)>> ELSE <<>>
        p2 == IF Truthy(data) /\ Truthy(Get(data, KContent))
              THEN <<Get(data, KContent)>> ELSE <<>>
        p3 == IF contents.t = "arr" THEN ContentsOf(contents.a) ELSE <<>>
        parts == p1 \o p2 \o p3
    IN  IF parts = <<>> THEN <<JStr(payload)>> ELSE parts

\* Variant B, catch (e) { onChunk(payload); } at line 214: what this call
\* throws leaves the loop.
CatchB(cs, payload) ==
    LET c == Invoke(cs, JStr(payload))
    IN  [calls |-> c, thrown |-> Threw(c)]

\* Variant B, for (const p of parts) onChunk(p), inside the try: the first
\* throw ends the loop over parts and enters the catch.
RECURSIVE DeliverB(_, _, _)
DeliverB(cs, parts, payload) ==
    IF parts = <<>> THEN Quiet(cs)
    ELSE LET c == Invoke(cs, Head(parts))
         IN  IF Threw(c) THEN CatchB(c, payload)
             ELSE DeliverB(c, Tail(parts), payload)

\* Variant B, lines 200-210, r being what JSON.parse of the slice came to.
ExtractB(cs, payload, r) ==
    IF r.ok THEN DeliverB(cs, PartsB(r.v, payload), payload)
    ELSE CatchB(cs, payload)

\* Variant B, lines 196-216.
TryB(cs, payload) ==
    LET start == IndexOf(payload, "{")
        end == LastIndexOf(payload, "}")
    IN  IF start # 0 /\ end # 0 /\ end > start
        THEN ExtractB(cs, payload, JsonParse(SubSeq(payload, start, end)))
        ELSE DeliverB(cs, <<JStr(payload)>>, payload)

\* Variant B, lines 179-216.
LineB(st, line) ==
    LET trimmed == Trim(line)
        payload == Trim(Slice(trimmed, Len(DataPrefix)))
    IN  IF ~StartsWith(trimmed, DataPrefix) THEN st
        ELSE IF payload = <<>> THEN st
        ELSE IF Sentinel(payload) THEN st
        ELSE IF StartsWith(payload, EventPrefix)
        THEN [st EXCEPT !.ev = Trim(Slice(payload, Len(EventPrefix)))]
        ELSE IF st.ev # <<>> /\ st.ev # DeltaEvent THEN st
        ELSE AfterTry(st, TryB(st.calls, payload))

\* The entry of lineLog for a line that took the loop state from st.loop to
\* r: the line, currentEvent before it, and what it passed to onChunk.
Logged(st, line, r) ==
    LET new == SubSeq(r.calls, Len(st.loop.calls) + 1, Len(r.calls))
    IN  [loop |-> r,
         log |-> Append(st.log,
                        [line |-> line, ev |-> st.loop.ev, out |-> ChunkArgs(new)])]

\* One iteration of for (const line of lines).
VisitLine(st, line) ==
    Logged(st, line,
           IF variant = "A" THEN LineA(st.loop, line) ELSE LineB(st.loop, line))

\* for (const line of lines) { ... }: ends early when an exception leaves it.
RECURSIVE ForLines(_, _)
ForLines(st, lines) ==
    IF lines = <<>> \/ st.loop.thrown THEN st
    ELSE ForLines(VisitLine(st, Head(lines)), Tail(lines))

\* A loop whose buffer is assigned, not appended to: buffer = decode(value).
ChunkNoCarry(buf, value, cs, log) ==
    LET lines == Split(value)
    IN  [buffer |-> lines[Len(lines)],
         loop |-> ForLines([loop |-> [calls |-> cs, ev |-> <<>>, thrown |-> FALSE],
                            log |-> log],
                           SubSeq(lines, 1, Len(lines) - 1))]

\* One iteration of while (true) after a read that returned value: lines 60-103
\* and 172-217.  currentEvent is declared inside the loop of variant B (line
\* 177), so every chunk starts with it empty; variant A has no such variable.
Chunk(buf, value, cs, log) ==
    LET decoded == buf \o value
        lines == Split(decoded)
    IN  [buffer |-> lines[Len(lines)],
         loop |-> ForLines([loop |-> [calls |-> cs, ev |-> <<>>, thrown |-> FALSE],
                            log |-> log],
                           SubSeq(lines, 1, Len(lines) - 1))]

----------------------------------------------------------------------------
(* The response bodies the source may deliver: up to MaxLines lines of     *)
(* the catalogue, each ended by a newline, the last one possibly not.      *)

\* How many lines a response body has at most.
MaxLines == 2

\* The longest chunk the reader returns, unless it returns all that is left.
MaxChunk == 2

\* How many onChunk invocations a sink may be set to fail.
MaxThrowAt == 2

\* The lines ls, each followed by a newline.
RECURSIVE Terminated(_)
Terminated(ls) ==
    IF ls = <<>> THEN <<>> ELSE Head(ls) \o <<"\n">> \o Terminated(Tail(ls))

\* Every sequence of at most MaxLines catalogue lines.
LineSeqs == UNION {[1..n -> Catalogue] : n \in 0..MaxLines}

\* A body ends with a newline or with a last line that has none.
Texts ==
    {Terminated(ls) : ls \in LineSeqs}
        \cup {Terminated(SubSeq(ls, 1, Len(ls) - 1)) \o ls[Len(ls)] :
                ls \in LineSeqs \ {<<>>}}

\* The body that arrives as the three chunks
\*   event: conversation.message.delta\ndata: {"con
\*   tent":"Hel
\*   lo"}\n\n
ScenarioChunks ==
    << LEvDelta \o <<"\n", "d", "a", "t", "a", ":", " ", "{", "\"", "c", "o", "n">>,
       <<"t", "e", "n", "t", "\"", ":", "\"", "H", "e", "l">>,
       <<"l", "o", "\"", "}", "\n", "\n">> >>

\* The chunks of the scenario from the k-th on, as one text.
RECURSIVE ScenarioFrom(_)
ScenarioFrom(k) ==
    IF k > Len(ScenarioChunks) THEN <<>>
    ELSE ScenarioChunks[k] \o ScenarioFrom(k + 1)

Scenario == ScenarioFrom(1)

\* The bodies a response may have: those made of catalogue lines, which the
\* reader cuts as ChunkSizes says, and the scenario, which it cuts into its
\* three chunks.
Bodies == Texts \cup {Scenario}

\* Callbacks that return normally (as ChatPage's do).
QuietSink == [chunkThrowAt |-> {}, doneThrows |-> FALSE]

\* Callbacks of which some invocations throw.
Sinks == [chunkThrowAt : SUBSET (1..MaxThrowAt), doneThrows : BOOLEAN]

----------------------------------------------------------------------------
(* ChatPage (src/unnamed/part_000, lines 90-158): its state and the three  *)
(* callbacks handleSend gives to streamLLM.                                *)

\* The decimal digits of n.
RECURSIVE NumText(_)
NumText(n) ==
    IF n < 10 THEN <<Digits[n + 1]>>
    ELSE NumText(n \div 10) \o <<Digits[(n % 10) + 1]>>

\* What the + of line 115 appends for chunk v: the string itself, and for
\* any other value the string JavaScript converts it to.
RECURSIVE ToText(_)
RECURSIVE JoinText(_)
ToText(v) ==
    CASE v.t = "str" -> v.s
      [] v.t = "num" -> NumText(v.n)
      [] v.t = "bool" -> IF v.b THEN <<"t", "r", "u", "e">>
                         ELSE <<"f", "a", "l", "s", "e">>
      [] v.t = "null" -> <<"n", "u", "l", "l">>
      [] v.t = "arr" -> JoinText(v.a)
      [] v.t = "obj" -> <<"[", "o", "b", "j", "e", "c", "t", " ",
                          "O", "b", "j", "e", "c", "t", "]">>
      [] OTHER -> <<"u", "n", "d", "e", "f", "i", "n", "e", "d">>

\* Array.prototype.join(','), null elements giving the empty string.
JoinText(a) ==
    IF a = <<>> THEN <<>>
    ELSE (IF Head(a).t = "null" THEN <<>> ELSE ToText(Head(a)))
            \o (IF Tail(a) = <<>> THEN <<>> ELSE <<",">> \o JoinText(Tail(a)))

\* { role, text }
Message(role, txt) == [role |-> role, text |-> txt]

\* No ChatPage is mounted.
NoPage ==
    [mounted |-> FALSE, prompt |-> <<>>, messages |-> <<>>,
     streaming |-> FALSE, error |-> <<>>]

\* ChatPage as first rendered: the useState defaults of lines 94-97.
FirstRender ==
    [mounted |-> TRUE, prompt |-> <<>>, messages |-> <<>>,
     streaming |-> FALSE, error |-> <<>>]

\* err.message || fallback: the errors of the model carry their origin as
\* message.
ErrMessage(err) == err.of

\* A callback that puts the chunk in the place of the text of the last
\* message.
OnChunkReplacing(pg, v) ==
    IF pg.messages # <<>> /\ pg.messages[Len(pg.messages)].role = "assistant"
    THEN [pg EXCEPT !.messages[Len(pg.messages)].text = ToText(v)]
    ELSE pg

\* onChunk, lines 110-119: the chunk is appended to the text of the last
\* message when that is an assistant message.
OnChunk(pg, v) ==
    IF pg.messages # <<>> /\ pg.messages[Len(pg.messages)].role = "assistant"
    THEN [pg EXCEPT !.messages[Len(pg.messages)].text = @ \o ToText(v)]
    ELSE pg

\* onDone, line 120.
OnDone(pg) == [pg EXCEPT !.streaming = FALSE]

\* onError, lines 121-124.
OnError(pg, err) == [pg EXCEPT !.streaming = FALSE, !.error = ErrMessage(err)]

\* ChatPage after the callback invocations cs, in order.  The setters of a
\* page that is not mounted change nothing.
RECURSIVE Render(_, _)
Render(pg, cs) ==
    IF cs = <<>> \/ ~pg.mounted THEN pg
    ELSE Render(CASE Head(cs).cb = "onChunk" -> OnChunk(pg, Head(cs).arg)
                  [] Head(cs).cb = "onDone" -> OnDone(pg)
                  [] OTHER -> OnError(pg, Head(cs).arg),
                Tail(cs))

\* Response.ok: the status is in the range 200-299.
ResOk(st) == st \in 200..299

\* {"error":"x"}   -- the body of an error response, as request() reads it
LErrorBody ==
    <<"{", "\"", "e", "r", "r", "o", "r", "\"", ":", "\"", "x", "\"", "}">>

----------------------------------------------------------------------------
(* AppShell and LoginPage (src/frontend/src/App.jsx): the token, the       *)
(* routes, and what request() makes of a response to /login or /register.  *)

\* The property names access_token and error.
KAccessToken == <<"a", "c", "c", "e", "s", "s", "_", "t", "o", "k", "e", "n">>
KError == <<"e", "r", "r", "o", "r">>

\* "s"
Quoted(s) == <<"\"">> \o s \o <<"\"">>

\* {"access_token":v} for the JSON text v
TokenBody(v) == <<"{">> \o Quoted(KAccessToken) \o <<":">> \o v \o <<"}">>

\* {"access_token":"t","error":"x"}
LTokenAndError ==
    <<"{">> \o Quoted(KAccessToken) \o <<":">> \o Quoted(<<"t">>) \o <<",">>
        \o Quoted(KError) \o <<":">> \o Quoted(<<"x">>) \o <<"}">>

\* The bodies of the responses to /login and /register: a token t, a token
\* u, an empty token, a number as token, no token, a token with an error, an
\* error, text that is no JSON, and null.
LoginBodies ==
    {TokenBody(Quoted(<<"t">>)), TokenBody(Quoted(<<"u">>)),
     TokenBody(Quoted(<<>>)), TokenBody(<<"7">>), <<"{", "}">>,
     LTokenAndError, LErrorBody, <<"o", "o", "p", "s">>,
     <<"n", "u", "l", "l">>}

\* fetch rejected: there is no response.
NoResponse == [status |-> 0, body |-> <<>>]

LoginResponses == [status : {200, 401, 500}, body : LoginBodies] \cup {NoResponse}

\* res.json(), line 11, before its catch.  What the bodies above stand for
\* is computed once and looked up.
ParsedBodies == [s \in LoginBodies |-> ParseDocument(s)]
ResJson(body) ==
    IF body \in LoginBodies THEN ParsedBodies[body] ELSE JsonParse(body)

\* The messages of the errors, the texts of the user interface standing
\* under ASCII names.
MsgExpired == <<"e", "x", "p", "i", "r", "e", "d">>
MsgFailed == <<"f", "a", "i", "l", "e", "d">>
MsgFetch == <<"f", "e", "t", "c", "h">>
MsgType == <<"T", "y", "p", "e", "E", "r", "r", "o", "r">>
MsgRequired == <<"r", "e", "q", "u", "i", "r", "e", "d">>
MsgNoToken == <<"n", "o", " ", "t", "o", "k", "e", "n">>

\* Response.statusText
StatusText(st) ==
    CASE st = 200 -> <<"O", "K">>
      [] st = 401 -> <<"U", "n", "a", "u", "t", "h", "o", "r", "i", "z", "e", "d">>
      [] OTHER -> <<"I", "n", "t", "e", "r", "n", "a", "l", " ", "S", "e", "r", "v", "e", "r",
                    " ", "E", "r", "r", "o", "r">>

Thrown(msg) == [threw |-> TRUE, msg |-> msg, data |-> JUndefined]
Returned(data) == [threw |-> FALSE, msg |-> <<>>, data |-> data]

\* a || b for two texts
OrText(a, b) == IF a # <<>> THEN a ELSE b

\* await res.json().catch(() => ({})), line 11.
DataOf(parsed) == IF parsed.ok THEN parsed.v ELSE JObj(<<>>)

\* Lines 12-18 for a response of status st with data, of which error is
\* data.error.
Checked(st, data, error) ==
    IF st = 401 THEN Thrown(MsgExpired)
    ELSE IF ~ResOk(st) \/ Truthy(error)
    THEN Thrown(OrText(IF Truthy(error) THEN ToText(error) ELSE <<>>,
                       OrText(StatusText(st), MsgFailed)))
    ELSE Returned(data)

\* Lines 11-18: reading a property of null throws.
Answered(st, data) ==
    IF data.t = "null"
    THEN (IF st = 401 THEN Thrown(MsgExpired) ELSE Thrown(MsgType))
    ELSE Checked(st, data, Get(data, KError))

\* request(), api.js lines 3-19, from the response on: the data it returns
\* or the error it throws.
Request(res) ==
    IF res = NoResponse THEN Thrown(MsgFetch)
    ELSE Answered(res.status, DataOf(ResJson(res.body)))

\* Boolean(token), line 24.
IsAuthed(token) == Truthy(token)

Shown(path, screen) == [path |-> path, screen |-> screen]

\* Routes that render ChatPage and ProfilePage whatever the token is.
RouteUnguarded(path, token) ==
    CASE path = "/login" -> Shown("/login", "LoginPage")
      [] path = "/chat" -> Shown("/chat", "ChatPage")
      [] path = "/profile" -> Shown("/profile", "ProfilePage")
      [] OTHER -> IF IsAuthed(token) THEN Shown("/chat", "ChatPage")
                  ELSE Shown("/login", "LoginPage")

\* <Routes>, lines 44-49: the location and the page shown for a location,
\* once every <Navigate> has taken effect.
Route(path, token) ==
    CASE path = "/login" -> Shown("/login", "LoginPage")
      [] path = "/chat" -> IF IsAuthed(token) THEN Shown("/chat", "ChatPage")
                           ELSE Shown("/login", "LoginPage")
      [] path = "/profile" -> IF IsAuthed(token) THEN Shown("/profile", "ProfilePage")
                              ELSE Shown("/login", "LoginPage")
      [] OTHER -> IF IsAuthed(token) THEN Shown("/chat", "ChatPage")
                  ELSE Shown("/login", "LoginPage")

\* LoginPage as first rendered: the useState defaults of lines 67-72.
FreshForm ==
    [userId |-> <<>>, username |-> <<>>, password |-> <<>>, mode |-> "login",
     error |-> <<>>, loading |-> FALSE]

\* localStorage.getItem('token') || '', line 8: item is null or a string.
StoredToken(item) == IF Truthy(item) THEN item ELSE JStr(<<>>)

\* The effect of lines 11-17: setItem stores its value as a string.
Effect(sh) ==
    IF Truthy(sh.token) THEN [sh EXCEPT !.storage = JStr(ToText(sh.token))]
    ELSE [sh EXCEPT !.storage = JNull]

\* setToken(v): a token that is not the one held is held from the next
\* render on, after which the effect runs, its dependency having changed.
SetToken(sh, v) == IF v = sh.token THEN sh ELSE Effect([sh EXCEPT !.token = v])

\* Whether navigate(to) takes LoginPage away: any location but /login does,
\* also one whose route sends back to /login, where a new LoginPage is
\* rendered.
Unmounts(sh, to) == sh.screen = "LoginPage" /\ to # "/login"

\* navigate(to) and the render that follows.  A request of a LoginPage that
\* is taken away stays in flight.
Routed(sh, to, r) ==
    [sh EXCEPT
        !.path = r.path,
        !.screen = r.screen,
        !.form = IF sh.screen = "LoginPage" /\ ~Unmounts(sh, to)
                 THEN @ ELSE FreshForm,
        !.stale = IF Unmounts(sh, to) /\ sh.form.loading THEN @ + 1 ELSE @]

Navigate(sh, to) == Routed(sh, to, Route(to, sh.token))

\* AppShell mounted at location url with item in localStorage: the first
\* render and the effect after it.
FirstShown(item, token, r) ==
    Effect([token |-> token, storage |-> item, path |-> r.path,
            screen |-> r.screen, form |-> FreshForm, stale |-> 0])

Mounted(item, url) ==
    FirstShown(item, StoredToken(item), Route(url, StoredToken(item)))

\* No AppShell is mounted.
NoShell ==
    [token |-> JStr(<<>>), storage |-> JNull, path |-> "", screen |-> "",
     form |-> FreshForm, stale |-> 0]

----------------------------------------------------------------------------
(* streamLLM as a state machine: one action per resumption of an await.    *)

\* The responses to POST /stream: a 200 with a body, or a 401 or 500 with an
\* error body.
Responses ==
    [status : {200}, body : Bodies]
        \cup [status : {401, 500}, body : {LErrorBody, LErrorBody \o <<"\n">>}]

InitWith(sinks) ==
    /\ variant \in {"A", "B"}
    /\ sink \in sinks
    /\ \E r \in Responses : status = r.status /\ text = r.body
    /\ src = text
    /\ pc = "fetch"
    /\ buffer = <<>>
    /\ calls = <<>>
    /\ lineLog = <<>>
    /\ page = NoPage
    /\ orphans = 0
    /\ stopAt = -1
    /\ base = <<>>
    /\ shell = NoShell

Init == InitWith({QuietSink})

InitSink == InitWith(Sinks)

\* The callbacks invoked in this step reach ChatPage when it is mounted.
Rendered == page' = Render(page, SubSeq(calls', Len(calls) + 1, Len(calls')))

\* await fetch(...) resolves with a response that has a body; getReader.
\* Nothing looks at the status of the response.
FetchResolve ==
    /\ pc = "fetch"
    /\ pc' = "read"
    /\ UNCHANGED <<given, src, buffer, calls, lineLog, page, chat>>

\* await fetch(...) rejects, or the response has no body (throw at line 51).
FetchFail ==
    /\ pc = "fetch"
    /\ \E err \in {ErrFetch, ErrNoBody} : calls' = Catch(calls, err)
    /\ pc' = "failed"
    /\ Rendered
    /\ UNCHANGED <<given, src, buffer, lineLog, chat>>

\* The chunk sizes the reader may return next: up to MaxChunk characters,
\* the rest of the current line with its newline, or all that is left; for
\* the scenario, its next chunk.
ChunkSizes ==
    IF text = Scenario
    THEN {Len(ScenarioChunks[k]) :
            k \in {j \in 1..Len(ScenarioChunks) : src = ScenarioFrom(j)}}
    ELSE ({n \in 1..MaxChunk : n <= Len(src)}
            \cup {IndexOf(src, "\n"), Len(src)}) \ {0}

\* The state after the loop body ended as r: the next read, or the catch
\* block when an exception left the for loop.
AfterChunk(r) ==
    /\ buffer' = r.buffer
    /\ lineLog' = r.loop.log
    /\ calls' = IF r.loop.loop.thrown THEN Catch(r.loop.loop.calls, ErrThrown)
                ELSE r.loop.loop.calls
    /\ pc' = IF r.loop.loop.thrown THEN "failed" ELSE "read"

\* await reader.read() resolves with the next n characters.
ReadChunk ==
    /\ pc = "read"
    /\ \E n \in ChunkSizes :
         /\ src' = Slice(src, n)
         /\ AfterChunk(Chunk(buffer, SubSeq(src, 1, n), calls, lineLog))
    /\ Rendered
    /\ UNCHANGED <<given, chat>>

\* A loop that, at the end of the stream, takes what is left in the buffer
\* as a last line before it calls onDone.
ReadDoneFlushing ==
    /\ pc = "read"
    /\ src = <<>>
    /\ LET r == ForLines([loop |-> [calls |-> calls, ev |-> <<>>, thrown |-> FALSE],
                          log |-> lineLog],
                         IF buffer = <<>> THEN <<>> ELSE <<buffer>>)
       IN  /\ calls' = Append(r.loop.calls, Call("onDone", JUndefined, FALSE))
           /\ lineLog' = r.log
    /\ pc' = "done"
    /\ Rendered
    /\ UNCHANGED <<given, src, buffer, chat>>

\* await reader.read() resolves with done: break, then onDone() at line 106,
\* still inside the try.
ReadDone ==
    /\ pc = "read"
    /\ src = <<>>
    /\ LET c == Append(calls, Call("onDone", JUndefined, sink.doneThrows))
       IN  /\ calls' = IF sink.doneThrows THEN Catch(c, ErrThrown) ELSE c
           /\ pc' = IF sink.doneThrows THEN "failed" ELSE "done"
    /\ Rendered
    /\ UNCHANGED <<given, src, buffer, lineLog, chat>>

\* await reader.read() rejects.
ReadReject ==
    /\ pc = "read"
    /\ calls' = Catch(calls, ErrRead)
    /\ pc' = "failed"
    /\ Rendered
    /\ UNCHANGED <<given, src, buffer, lineLog, chat>>

Next == FetchResolve \/ FetchFail \/ ReadChunk \/ ReadDone \/ ReadReject

Spec == Init /\ [][Next]_vars

SpecSink == InitSink /\ [][Next]_vars

----------------------------------------------------------------------------
(* ChatPage inside AppShell: the user types, sends, presses the second     *)
(* button, and follows the links of the header, which unmount and mount    *)
(* the page; the streams handleSend starts run as above.                   *)

\* How many times one ChatPage sends.
MaxSends == 2

\* How many streams of unmounted pages are in flight at most.
MaxOrphans == 1

\* The answers in a chat: nothing, one fragment, two fragments, noise and a
\* fragment.
ChatBodies ==
    {Terminated(ls) :
        ls \in {<<>>, <<LPlain>>, <<LPlain, LPlain>>, <<LNotJson, LPlain>>}}

\* The responses to the requests of a chat.
ChatResponses == [status : {200}, body : ChatBodies]

\* What the user types into the textarea.
Prompts == {<<" ">>, <<"q">>}

\* Whether the stream the model follows is in flight.
Running == pc \in {"fetch", "read"}

\* A logged-in user on /chat, nothing sent yet.
InitChat ==
    /\ variant \in {"A", "B"}
    /\ sink = QuietSink
    /\ status = 0
    /\ text = <<>>
    /\ src = <<>>
    /\ pc = "idle"
    /\ buffer = <<>>
    /\ calls = <<>>
    /\ lineLog = <<>>
    /\ page = FirstRender
    /\ orphans = 0
    /\ stopAt = -1
    /\ base = <<>>
    /\ shell = Mounted(JStr(<<"t">>), "/chat")

\* onChange of the textarea, line 149.
TypePrompt ==
    /\ page.mounted
    /\ \E p \in Prompts : page' = [page EXCEPT !.prompt = p]
    /\ UNCHANGED <<given, src, pc, buffer, calls, lineLog, chat>>

\* streamLLM({...}) of line 107, up to its first await: the request is on
\* its way.  A stream still in flight goes on without the model following it.
StartStream ==
    /\ \E r \in ChatResponses : status' = r.status /\ text' = r.body
    /\ src' = text'
    /\ pc' = "fetch"
    /\ buffer' = <<>>
    /\ calls' = <<>>
    /\ lineLog' = <<>>
    /\ orphans' = IF Running THEN orphans + 1 ELSE orphans

\* A click on the send button (line 152, disabled while streaming):
\* handleSend, lines 99-126.
HandleSend ==
    /\ page.mounted
    /\ ~page.streaming
    /\ IF Trim(page.prompt) = <<>> THEN UNCHANGED vars
       ELSE /\ Len(page.messages) < 2 * MaxSends
            /\ page' = [page EXCEPT
                          !.error = <<>>,
                          !.messages = @ \o << Message("user", page.prompt),
                                               Message("assistant", <<>>) >>,
                          !.prompt = <<>>,
                          !.streaming = TRUE]
            /\ base' = page'.messages
            /\ stopAt' = -1
            /\ StartStream
            /\ UNCHANGED <<variant, sink, shell>>

\* A click on the second button (line 153, disabled unless streaming): it
\* has no onClick, nothing happens.
ClickWait ==
    /\ page.mounted
    /\ page.streaming
    /\ stopAt = -1
    /\ stopAt' = Len(calls)
    /\ UNCHANGED <<given, src, pc, buffer, calls, lineLog, page, orphans, base,
                   shell>>

\* A click on the link to /profile or on the logout button (App.jsx lines
\* 35 and 37): ChatPage is unmounted.  Its stream, when in flight, goes on;
\* its callbacks reach no page any more and the model stops following it.
Leave ==
    /\ page.mounted
    /\ Running => orphans < MaxOrphans
    /\ page' = NoPage
    /\ orphans' = IF Running THEN orphans + 1 ELSE orphans
    /\ status' = 0
    /\ text' = <<>>
    /\ src' = <<>>
    /\ pc' = "idle"
    /\ buffer' = <<>>
    /\ calls' = <<>>
    /\ lineLog' = <<>>
    /\ stopAt' = -1
    /\ base' = <<>>
    /\ UNCHANGED <<variant, sink, shell>>

\* A click on the link to /chat (App.jsx line 34) when ChatPage is not
\* mounted: a new ChatPage is rendered.
Enter ==
    /\ ~page.mounted
    /\ page' = FirstRender
    /\ UNCHANGED <<given, src, pc, buffer, calls, lineLog, chat>>

\* A stream of an unmounted page comes to its onDone or onError.
OrphanSettles ==
    /\ orphans > 0
    /\ orphans' = orphans - 1
    /\ UNCHANGED <<given, src, pc, buffer, calls, lineLog, page, stopAt, base,
                   shell>>

NextChat ==
    \/ TypePrompt \/ HandleSend \/ ClickWait \/ Leave \/ Enter \/ OrphanSettles
    \/ FetchResolve \/ FetchFail \/ ReadChunk \/ ReadDone \/ ReadReject

SpecChat == InitChat /\ [][NextChat]_vars

----------------------------------------------------------------------------
(* AppShell as a state machine: the user opens a location, follows the     *)
(* links of the header, fills and submits LoginPage, logs out; the         *)
(* requests of LoginPage settle.  What ChatPage and ProfilePage do inside  *)
(* is not followed.                                                        *)

\* How many requests of LoginPages since taken away are in flight at most.
MaxStale == 1

\* The locations a user opens.
Urls == {"/login", "/chat", "/profile", "/"}

\* The step to AppShell sh: ChatPage is rendered anew when it was not shown
\* before, and no stream runs.
ShellStep(sh) ==
    /\ shell' = sh
    /\ page' = IF sh.screen # "ChatPage" THEN NoPage
               ELSE IF shell.screen = "ChatPage" THEN page ELSE FirstRender
    /\ UNCHANGED <<given, src, pc, buffer, calls, lineLog, orphans, stopAt, base>>

InitShell ==
    /\ variant = "A"
    /\ sink = QuietSink
    /\ status = 0
    /\ text = <<>>
    /\ src = <<>>
    /\ pc = "idle"
    /\ buffer = <<>>
    /\ calls = <<>>
    /\ lineLog = <<>>
    /\ orphans = 0
    /\ stopAt = -1
    /\ base = <<>>
    \* localStorage holds nothing, the empty string or a token
    /\ \E item \in {JNull, JStr(<<>>), JStr(<<"t">>)}, url \in Urls :
          shell = Mounted(item, url)
    /\ page = IF shell.screen = "ChatPage" THEN FirstRender ELSE NoPage

\* The user opens a location in the address bar: the application is loaded
\* anew, and what was in flight is gone.
OpenLocation ==
    \E url \in Urls :
        /\ shell.screen # ""
        /\ ShellStep(Mounted(shell.storage, url))

\* A click on a link of the header, lines 34-40; the link to /login is
\* there when the user is not logged in.
FollowLink ==
    \E to \in {"/chat", "/profile"}
                \cup (IF IsAuthed(shell.token) THEN {} ELSE {"/login"}) :
        /\ Unmounts(shell, to) /\ shell.form.loading => shell.stale < MaxStale
        /\ ShellStep(Navigate(shell, to))

\* handleLogout, lines 19-22, on a click on the button of line 37, which is
\* there when the user is logged in.
HandleLogout ==
    /\ IsAuthed(shell.token)
    /\ ShellStep(Navigate(SetToken(shell, JStr(<<>>)), "/login"))

\* onChange of an input of LoginPage, lines 106, 111, 116; the input of the
\* user name is there in register mode.
TypeField ==
    /\ shell.screen = "LoginPage"
    /\ \E f \in {"userId", "password"}
                  \cup (IF shell.form.mode = "register" THEN {"username"} ELSE {}),
          v \in {<<>>, <<"a">>} :
        ShellStep([shell EXCEPT !.form[f] = v])

\* The buttons of lines 101-102.
SetMode ==
    /\ shell.screen = "LoginPage"
    /\ \E m \in {"login", "register"} :
        ShellStep([shell EXCEPT !.form.mode = m])

\* handleSubmit, lines 75-84, up to its await, on a click on the button of
\* line 118, disabled while loading.
HandleSubmit ==
    /\ shell.screen = "LoginPage"
    /\ ~shell.form.loading
    /\ LET f == shell.form
       IN  IF f.userId = <<>> \/ f.password = <<>>
                \/ (f.mode = "register" /\ f.username = <<>>)
           THEN ShellStep([shell EXCEPT !.form.error = MsgRequired])
           ELSE ShellStep([shell EXCEPT !.form.error = <<>>,
                                        !.form.loading = TRUE])

\* handleSubmit from its await on, lines 84-95, for the response res; live
\* says whether the LoginPage that submitted is still there.  The setters of
\* a LoginPage taken away change nothing.
SettledWith(sh, out, tok, live) ==
    IF ~out.threw /\ Truthy(tok)
    THEN Navigate(SetToken(sh, tok), "/chat")
    ELSE IF live
    THEN [sh EXCEPT !.form.error = IF out.threw THEN OrText(out.msg, MsgFailed)
                                   ELSE MsgNoToken]
    ELSE sh

SettledBy(sh, out, live) ==
    SettledWith(sh, out, Get(out.data, KAccessToken), live)

Settled(sh, res, live) == SettledBy(sh, Request(res), live)

\* The request of the LoginPage shown settles with res.
LoginSettlesWith(res) ==
    /\ shell.screen = "LoginPage"
    /\ shell.form.loading
    /\ ShellStep(Settled([shell EXCEPT !.form.loading = FALSE], res, TRUE))

LoginSettles == \E res \in LoginResponses : LoginSettlesWith(res)

\* The request of a LoginPage since taken away settles with res.
StaleSettlesWith(res) ==
    /\ shell.stale > 0
    /\ ShellStep(Settled([shell EXCEPT !.stale = @ - 1], res, FALSE))

StaleSettles == \E res \in LoginResponses : StaleSettlesWith(res)

NextShell ==
    \/ OpenLocation \/ FollowLink \/ HandleLogout
    \/ TypeField \/ SetMode \/ HandleSubmit
    \/ LoginSettles \/ StaleSettles

SpecShell == InitShell /\ [][NextShell]_vars

----------------------------------------------------------------------------
(* What the properties below speak of.                                     *)

\* How many times callback cb was invoked.
Count(cb) == Cardinality({i \in 1..Len(calls) : calls[i].cb = cb})

\* The last callback invoked, when there is one.
LastCall == calls[Len(calls)]

\* The errors of the source: fetch, the missing body, reader.read().
SourceErrors == {ErrFetch, ErrNoBody, ErrRead}

\* Whether the run has ended in a failure of the source: it failed, and no
\* callback threw.
SourceFailed == pc = "failed" /\ \A k \in 1..Len(calls) : ~calls[k].threw

\* The newline-terminated lines of the part of the body read so far.
LinesRead ==
    Cardinality(Positions(text, "\n")) - Cardinality(Positions(src, "\n"))

\* Whether a line is an event: line, and the event it names.
IsEventLine(line) == StartsWith(Trim(line), EventPrefix)
EventNamed(line) == Trim(Slice(Trim(line), Len(EventPrefix)))

\* The event: lines among the first i - 1 visited lines.
EventLinesBefore(i) == {j \in 1..(i - 1) : IsEventLine(lineLog[j].line)}

\* The event named by the most recent event: line before the i-th visited
\* line; <<>> when there is none.
EventBefore(i) ==
    IF EventLinesBefore(i) = {} THEN <<>>
    ELSE EventNamed(lineLog[CHOOSE j \in EventLinesBefore(i) :
                                \A k \in EventLinesBefore(i) : k <= j].line)

\* Whether a payload is a JSON object, and the object.
IsObject(payload) == JsonParse(payload).ok /\ JsonParse(payload).v.t = "obj"
ObjectOf(payload) == JsonParse(payload).v

\* Whether an object is tagged as a suggestion.
IsFollowUp(obj) ==
    IsStr(Get(obj, KType), FollowUp) \/ IsStr(Get(obj, KMsgType), FollowUp)

\* Whether v is a string with something left after trimming.
IsText(v) == v.t = "str" /\ Trim(v.s) # <<>>

\* The fragments the three content rules give for an object, in rule order:
\* content, data.content, then the elements of data.contents.
RuleFragments(obj) ==
    LET data == Get(obj, KData)
        contents == Get(data, KContents)
        els == IF contents.t = "arr" THEN contents.a ELSE <<>>
        one(v) == IF IsText(v) THEN <<v>> ELSE <<>>
        RECURSIVE each(_)
        each(a) == IF a = <<>> THEN <<>>
                   ELSE one(Get(Head(a), KContent)) \o each(Tail(a))
    IN  one(Get(obj, KContent)) \o one(Get(data, KContent)) \o each(els)

\* Whether the i-th visited line is a data line with a well-formed content
\* object that is no suggestion.
IsContentLine(i) ==
    /\ IsObject(PayloadOf(lineLog[i].line))
    /\ ~IsFollowUp(ObjectOf(PayloadOf(lineLog[i].line)))
    /\ RuleFragments(ObjectOf(PayloadOf(lineLog[i].line))) # <<>>

\* What streamLLM passes to onChunk when the whole body arrives as one chunk
\* and the callbacks return normally.
SingleChunkArgs ==
    ChunkArgs(Chunk(<<>>, text, <<>>, <<>>).loop.loop.calls)

\* No line before the i-th visited line declares an event, either as an
\* event: line or as the payload of a data line.
NoEventDeclaredBefore(i) ==
    \A j \in 1..(i - 1) :
        /\ ~IsEventLine(lineLog[j].line)
        /\ ~StartsWith(PayloadOf(lineLog[j].line), EventPrefix)

\* Whether the i-th visited line is a data line whose object has a top-level
\* content string with text in it and is no suggestion.
HasTopLevelContent(i) ==
    /\ IsObject(PayloadOf(lineLog[i].line))
    /\ ~IsFollowUp(ObjectOf(PayloadOf(lineLog[i].line)))
    /\ IsText(Get(ObjectOf(PayloadOf(lineLog[i].line)), KContent))

----------------------------------------------------------------------------
(* The properties.                                                         *)

\* C1: chunk-boundary invariance.  When a run has read the whole body and
\* called onDone, the values it passed to onChunk are those it passes when the
\* body arrives as a single chunk, however the body was cut into chunks.
C1_ChunkBoundaryInvariance ==
    pc = "done" => ChunkArgs(calls) = SingleChunkArgs

\* C2: the terminal-callback protocol.  onDone is invoked at most once, only
\* once the source has signalled the end of the stream, and as the last
\* callback of the run; onError is invoked at most once; never both.
C2_TerminalProtocol ==
    /\ Count("onDone") <= 1
    /\ Count("onError") <= 1
    /\ ~(Count("onDone") = 1 /\ Count("onError") = 1)
    /\ Count("onDone") = 1 => src = <<>> /\ LastCall.cb = "onDone"
    /\ pc = "done" => Count("onDone") = 1

\* C3: a failure of the source.  When fetch rejects, the body is missing or a
\* read rejects, after any number of chunks, onError has been invoked exactly
\* once and as the last callback, onDone not at all, nothing more can happen
\* (no read, no callback), and a failure before the first chunk leaves no
\* onChunk call.
C3_SourceFailure ==
    SourceFailed =>
        /\ Count("onError") = 1
        /\ Count("onDone") = 0
        /\ LastCall.cb = "onError"
        /\ ~ENABLED Next
        /\ (src = text => NChunk(calls) = 0)

\* C3's case: a read rejects after chunks that produced onChunk calls.
C3_Witness ==
    SourceFailed /\ LastCall.arg = ErrRead /\ NChunk(calls) > 0 /\ src # <<>>

\* C4: event filtering.  A data line with content whose most recent event:
\* line names another event than conversation.message.delta passes nothing to
\* onChunk; after an event: line naming conversation.message.delta it passes
\* its content.
C4_EventFiltering ==
    \A i \in 1..Len(lineLog) :
        IsContentLine(i) =>
            /\ EventBefore(i) \notin {<<>>, DeltaEvent} => lineLog[i].out = <<>>
            /\ EventBefore(i) = DeltaEvent => lineLog[i].out # <<>>

\* C5: follow-up suppression.  A data line whose object has type or msg_type
\* equal to follow_up passes nothing to onChunk.
C5_FollowUpSuppression ==
    \A i \in 1..Len(lineLog) :
        (/\ IsObject(PayloadOf(lineLog[i].line))
         /\ IsFollowUp(ObjectOf(PayloadOf(lineLog[i].line))))
            => lineLog[i].out = <<>>

\* C6: multi-fragment extraction.  A data line whose object has data.contents
\* as a sequence, is no suggestion and follows no event declaration passes to
\* onChunk the text of content, of data.content and of each element of
\* data.contents, in that order.
C6_MultiFragment ==
    \A i \in 1..Len(lineLog) :
        (/\ IsObject(PayloadOf(lineLog[i].line))
         /\ ~IsFollowUp(ObjectOf(PayloadOf(lineLog[i].line)))
         /\ Get(Get(ObjectOf(PayloadOf(lineLog[i].line)), KData), KContents).t = "arr"
         /\ NoEventDeclaredBefore(i))
            => lineLog[i].out = RuleFragments(ObjectOf(PayloadOf(lineLog[i].line)))

\* C7: no raw-payload fallback.  No line passes its own payload to onChunk,
\* and a data line whose payload is not JSON, is JSON but no object, or is an
\* object none of the content rules matches passes nothing.
C7_NoRawFallback ==
    \A i \in 1..Len(lineLog) :
        LET payload == PayloadOf(lineLog[i].line)
            out == lineLog[i].out
        IN  /\ \A k \in 1..Len(out) : out[k] # JStr(payload)
            /\ (\/ ~IsObject(payload)
                \/ RuleFragments(ObjectOf(payload)) = <<>>) => out = <<>>

\* C8: every value passed to onChunk is a string that is not empty after
\* trimming.
C8_FragmentsNonEmpty ==
    \A k \in 1..Len(calls) : calls[k].cb = "onChunk" => IsText(calls[k].arg)

\* C9: the sentinel.  A data: [DONE] line passes nothing to onChunk; a data
\* line with top-level content that comes after it, with no event declared
\* before, still passes its content; and onDone is invoked only once the
\* source has ended and every terminated line of the body was visited.
C9_SentinelIgnored ==
    /\ \A i \in 1..Len(lineLog) :
           PayloadOf(lineLog[i].line) = DoneSentinel => lineLog[i].out = <<>>
    /\ \A i \in 1..Len(lineLog) : \A j \in (i + 1)..Len(lineLog) :
           (/\ PayloadOf(lineLog[i].line) = DoneSentinel
            /\ HasTopLevelContent(j)
            /\ NoEventDeclaredBefore(j))
               => /\ lineLog[j].out # <<>>
                  /\ lineLog[j].out[1] =
                         Get(ObjectOf(PayloadOf(lineLog[j].line)), KContent)
    /\ Count("onDone") = 1 =>
           /\ src = <<>>
           /\ Len(lineLog) = Cardinality(Positions(text, "\n"))

\* C9's case: the stream ended with onDone after a sentinel line that was
\* followed by a line with top-level content, which passed it on.
C9_Witness ==
    /\ pc = "done"
    /\ \E i \in 1..Len(lineLog) : \E j \in (i + 1)..Len(lineLog) :
           /\ PayloadOf(lineLog[i].line) = DoneSentinel
           /\ HasTopLevelContent(j)
           /\ NoEventDeclaredBefore(j)
           /\ lineLog[j].out # <<>>

\* C10: decode noise is no error.  onError is only ever handed a failure of
\* the source; while the reads succeed every terminated line read so far has
\* been visited, whatever the lines before it held; and the run that reaches
\* the end of the stream ends with onDone and without onError.
C10_NoiseIsNoError ==
    /\ \A k \in 1..Len(calls) :
           calls[k].cb = "onError" => calls[k].arg \in SourceErrors
    /\ pc \in {"read", "done"} => Len(lineLog) = LinesRead
    /\ pc = "done" => LastCall.cb = "onDone" /\ Count("onError") = 0

\* C10's case: a run that ended with onDone after a line that is not JSON and
\* a later line that passed content on.
C10_Witness ==
    /\ pc = "done"
    /\ \E i \in 1..Len(lineLog) : \E j \in (i + 1)..Len(lineLog) :
           /\ PayloadOf(lineLog[i].line) # <<>>
           /\ ~JsonParse(PayloadOf(lineLog[i].line)).ok
           /\ ~Sentinel(PayloadOf(lineLog[i].line))
           /\ lineLog[j].out # <<>>

\* C12: the current event.  When the loop meets a line, currentEvent is the
\* event named by the most recent event: line of the body before it, empty
\* when there is none: only event: lines change it, and neither other lines
\* nor the arrival of a chunk do.
C12_CurrentEvent ==
    \A i \in 1..Len(lineLog) : lineLog[i].ev = EventBefore(i)

\* The part of the body the reader has returned so far.
Received == SubSeq(text, 1, Len(text) - Len(src))

\* The lines the loop has visited, in the order it visited them.
Visited == [i \in 1..Len(lineLog) |-> lineLog[i].line]

\* The loop has visited the lines of the body in the order of the body: the
\* body begins with the visited lines, each followed by its newline.
VisitedInOrder == StartsWith(text, Terminated(Visited))

\* What the visited lines passed to onChunk, line after line.
RECURSIVE OutsFrom(_)
OutsFrom(i) ==
    IF i > Len(lineLog) THEN <<>> ELSE lineLog[i].out \o OutsFrom(i + 1)

\* The values an object holds where the content rules look, in rule order:
\* content, data.content, the content of each element of data.contents.
Candidates(obj) ==
    LET data == Get(obj, KData)
        contents == IF Truthy(data) THEN Get(data, KContents) ELSE JUndefined
        els == IF contents.t = "arr" THEN contents.a ELSE <<>>
        one(v) == IF v = JUndefined THEN <<>> ELSE <<v>>
        RECURSIVE each(_)
        each(a) == IF a = <<>> THEN <<>>
                   ELSE (IF Truthy(Head(a)) THEN one(Get(Head(a), KContent))
                         ELSE <<>>) \o each(Tail(a))
    IN  one(Get(obj, KContent))
            \o (IF Truthy(data) THEN one(Get(data, KContent)) ELSE <<>>)
            \o each(els)

\* Whether a can be had from b by leaving elements out.
RECURSIVE IsSubseq(_, _)
IsSubseq(a, b) ==
    IF a = <<>> THEN TRUE
    ELSE IF b = <<>> THEN FALSE
    ELSE IF Head(a) = Head(b) THEN IsSubseq(Tail(a), Tail(b))
    ELSE IsSubseq(a, Tail(b))

\* C13: strict FIFO and implicit backpressure.  Whenever a read is pending or
\* the stream has ended, every terminated line returned so far has been
\* visited; the lines are visited in the order of the body; the onChunk calls
\* of the run are those of the visited lines, line after line; and the
\* fragments of one line come in rule order.
C13_FifoOrder ==
    /\ pc \in {"read", "done"} => Len(lineLog) = LinesRead
    /\ VisitedInOrder
    /\ ChunkArgs(calls) = OutsFrom(1)
    /\ \A i \in 1..Len(lineLog) :
           (/\ Len(lineLog[i].out) > 1
            /\ IsObject(PayloadOf(lineLog[i].line)))
               => IsSubseq(lineLog[i].out,
                           Candidates(ObjectOf(PayloadOf(lineLog[i].line))))

\* C13's case: a run that ended after two lines passed fragments on, the
\* first of them more than one fragment.
C13_Witness ==
    /\ pc = "done"
    /\ \E i \in 1..Len(lineLog) : \E j \in (i + 1)..Len(lineLog) :
           /\ Len(lineLog[i].out) > 1
           /\ lineLog[j].out # <<>>
    /\ buffer = <<>>

\* C14: the pending tail.  After each chunk the buffer holds no newline and is
\* the text received after the last newline, and the lines the loop has
\* visited are the terminated lines received so far, each once and in order:
\* the text received is the visited lines, each followed by its newline, and
\* then the buffer.
C14_PendingTail ==
    /\ Positions(buffer, "\n") = {}
    /\ \A i \in 1..Len(lineLog) : Positions(lineLog[i].line, "\n") = {}
    /\ Received = Terminated(Visited) \o buffer

\* C14's case: a read is pending while the buffer holds a part of a line that
\* took more than one chunk to arrive, after a line that was visited.
C14_Witness ==
    /\ pc = "read"
    /\ src # <<>>
    /\ Len(buffer) > MaxChunk
    /\ Len(lineLog) >= 1

\* C15: the drop at the end of the stream.  When the stream has ended, a last
\* line without newline is still in the buffer and was never visited: the
\* onChunk calls of the run are those of the terminated lines alone, and
\* onDone follows them.
C15_EndOfStreamDrop ==
    pc = "done" =>
        /\ buffer = Split(text)[Len(Split(text))]
        /\ Len(lineLog) = Cardinality(Positions(text, "\n"))
        /\ Len(calls) = Len(OutsFrom(1)) + 1
        /\ \A k \in 1..Len(OutsFrom(1)) :
               calls[k].cb = "onChunk" /\ calls[k].arg = OutsFrom(1)[k]
        /\ LastCall.cb = "onDone"

\* C15's case: the stream ended on a complete, well-formed data line that
\* lacks its newline, and nothing was passed to onChunk.
C15_Witness ==
    /\ pc = "done"
    /\ buffer = LPlain
    /\ text = LPlain
    /\ calls = <<Call("onDone", JUndefined, FALSE)>>

\* C16: the three-chunk scenario.  The body that arrives as the chunks
\* 'event: conversation.message.delta\ndata: {"con', 'tent":"Hel' and
\* 'lo"}\n\n', followed by the end of the stream, gives one onChunk call with
\* "Hello", then one onDone call, and no onError call.
C16_ThreeChunkScenario ==
    (text = Scenario /\ pc = "done") =>
        calls = << Call("onChunk", JStr(<<"H", "e", "l", "l", "o">>), FALSE),
                   Call("onDone", JUndefined, FALSE) >>

\* C16's case: the scenario was read to its end, its three lines visited.
C16_Witness ==
    /\ text = Scenario
    /\ pc = "done"
    /\ Len(lineLog) = Cardinality(Positions(Scenario, "\n"))
    /\ NChunk(calls) = 1

\* C17: exceptions of the sink.  Once an onChunk call has thrown, the run has
\* failed with exactly one onError call, onDone is not called, and onChunk is
\* not called again.
C17_SinkException ==
    \A k \in 1..Len(calls) :
        (calls[k].cb = "onChunk" /\ calls[k].threw) =>
            /\ pc = "failed"
            /\ Count("onError") = 1
            /\ Count("onDone") = 0
            /\ \A m \in (k + 1)..Len(calls) : calls[m].cb # "onChunk"

\* C20: the HTTP status and the outcome of the stream.  A request answered
\* with a status outside 200-299 never ends in onDone: when its run is over,
\* onError was invoked once and onDone not at all.
C20_FailedRequest ==
    ~ResOk(status) =>
        /\ Count("onDone") = 0
        /\ pc \in {"done", "failed"} => Count("onError") = 1

\* The streams in flight: the one the model follows and those of unmounted
\* pages.
InFlight == orphans + (IF Running THEN 1 ELSE 0)

\* An error of the cancellation kind.
IsCancellation(err) == err.of = "abort"

\* C11: cancellation.  Once the user has asked a running stream to stop, the
\* only callback that follows is onError with an error of the cancellation
\* kind, and the run does not end without it.
C11_Cancellation ==
    stopAt >= 0 =>
        /\ \A k \in (stopAt + 1)..Len(calls) :
               calls[k].cb = "onError" /\ IsCancellation(calls[k].arg)
        /\ pc \in {"done", "failed"} => Len(calls) > stopAt

\* C18: the streaming flag of ChatPage.  While the page is mounted, streaming
\* is true exactly from handleSend until onDone or onError; and at most one
\* stream is in flight at any time.
C18_StreamingFlag ==
    /\ page.mounted => (page.streaming <=> Running)
    /\ InFlight <= 1

\* The texts of the values vs, one after the other.
RECURSIVE Concat(_)
Concat(vs) == IF vs = <<>> THEN <<>> ELSE ToText(Head(vs)) \o Concat(Tail(vs))

\* C19: accumulation in ChatPage.  After any onChunk calls of the stream a
\* page started, its last message is the assistant message handleSend
\* appended, with the delivered fragments in delivery order as text, and
\* every other message is as handleSend left it.
C19_Accumulation ==
    (page.mounted /\ pc # "idle") =>
        /\ Len(page.messages) = Len(base)
        /\ \A i \in 1..(Len(base) - 1) : page.messages[i] = base[i]
        /\ page.messages[Len(base)] =
               Message("assistant", Concat(ChunkArgs(calls)))

\* C19's case: the second stream of a page ended after at least two
\* fragments, the first answer having text of its own.
C19_Witness ==
    /\ page.mounted
    /\ pc = "done"
    /\ Len(page.messages) = 4
    /\ page.messages[2].text # <<>>
    /\ NChunk(calls) >= 2

\* What localStorage holds under 'token' after the effect, for a token.
ItemFor(token) == IF Truthy(token) THEN JStr(ToText(token)) ELSE JNull

\* The access_token a response gives handleSubmit; undefined when request()
\* throws or its data has none.
AccessTokenOf(res) == Get(Request(res).data, KAccessToken)

\* ChatPage and ProfilePage are shown to a logged-in user only; a user who
\* is not logged in is at /login, on LoginPage.
GuardedPages ==
    /\ shell.screen \in {"ChatPage", "ProfilePage"} => Truthy(shell.token)
    /\ ~Truthy(shell.token) => shell.path = "/login" /\ shell.screen = "LoginPage"
    /\ page.mounted => Truthy(shell.token)

\* The token gets a non-empty value in place of the empty one only in a step
\* in which a request of LoginPage settles with a response whose
\* access_token is that value.
TokenFromLogin ==
    ~Truthy(shell.token) /\ Truthy(shell'.token)
        => \E res \in LoginResponses :
              /\ LoginSettlesWith(res) \/ StaleSettlesWith(res)
              /\ Truthy(AccessTokenOf(res))
              /\ shell'.token = AccessTokenOf(res)

\* C21: in AppShell, ChatPage and ProfilePage are rendered only while the
\* token is non-empty, a user without token being sent to /login; the token
\* becomes non-empty only through a login or register response that carries
\* an access_token; handleLogout makes it empty; and after every change of
\* the token localStorage holds it exactly when it is non-empty.
C21_AuthGuard ==
    /\ [](GuardedPages /\ shell.storage = ItemFor(shell.token))
    /\ [][TokenFromLogin]_vars
    /\ [][HandleLogout => ~Truthy(shell'.token) /\ shell'.storage = JNull]_vars

\* A user who was not logged in has logged in with token u, which
\* localStorage holds, and is shown ChatPage.
C21_Witness ==
    /\ shell.token = JStr(<<"u">>)
    /\ shell.storage = JStr(<<"u">>)
    /\ shell.screen = "ChatPage"
    /\ page.mounted

====
